---- MODULE Spec2Model ----
(***************************************************************************)
(* A model of uvic_music_extractor/extractors.py: the ExtractorBase        *)
(* contract (construction, get_headers) and the __call__ of the seven      *)
(* concrete extractors.                                                    *)
(*                                                                         *)
(* Numeric feature values are represented by the name of the quantity      *)
(* they hold ("crest_factor.mean", "top1db", ...): the properties studied  *)
(* here are about which quantities are returned, in which order, and about *)
(* which exception ends a call.  An audio buffer is represented by its     *)
(* shape and by whether all its samples are zero.  Two further             *)
(* specifications take actual sample values: SpecDistortion (amplitude     *)
(* histogram and its first difference) and SpecLoudness (top1db).          *)
(***************************************************************************)
EXTENDS Integers, Sequences, FiniteSets, TLC

VARIABLES
    inst,      \* the extractor instance: its class and its attributes
    args,      \* the arguments the instance was constructed with
    audio,     \* the buffer of the latest __call__
    headers,   \* outcome of the latest get_headers()
    result,    \* outcome of the latest __call__
    prev,      \* outcome of the call before it, when it had the same buffer
    signal,    \* Distortion: the samples of the buffer, flattened
    prime,     \* Distortion: outcome of the first-difference loop
    env_l,     \* Loudness: true-peak envelope of the left channel
    env_r,     \* Loudness: true-peak envelope of the right channel
    top1db     \* Loudness: outcome of the top1db computation

vars == <<inst, args, audio, headers, result, prev, signal, prime, env_l, env_r, top1db>>

frameworkVars == <<inst, args, audio, headers, result, prev>>
distortionVars == <<signal, prime>>
loudnessVars == <<env_l, env_r, top1db>>

----------------------------------------------------------------------------
(* Bounds of the model *)

\* longest buffer, in samples
MaxLen == 5
\* largest channel count of a buffer (1 is a one-dimensional mono array)
MaxCh == 3
\* largest frame size given at construction
MaxFrame == 3

----------------------------------------------------------------------------
(* Python values *)

\* An optional value: None, or Some(v)
None == <<>>
Some(v) == <<v>>
Val(o) == o[1]

\* Outcome of a call: a returned vector, or a raised exception.  pool is the
\* sequence of (key, sample) pairs added to the essentia.Pool during the call.
Ret(vec, pool) == [kind |-> "return", vec |-> vec, exc |-> "", pool |-> pool]
Raise(e, pool) == [kind |-> "raise", vec |-> <<>>, exc |-> e, pool |-> pool]
NotCalled == [kind |-> "none", vec |-> <<>>, exc |-> "", pool |-> <<>>]

Abs(x) == IF x < 0 THEN -x ELSE x
\* ceil(a / b) for a >= 0, b > 0
CeilDiv(a, b) == (a + b - 1) \div b

----------------------------------------------------------------------------
(* Inputs *)

\* sample rates given at construction
SampleRates == {-1, 0, 44100}

\* frame sizes given at construction (None: the argument is omitted)
FrameSizes == {None} \cup {Some(k) : k \in -1..MaxFrame}

\* stats lists given at construction (None: the argument is omitted)
StatsLists == {None, Some(<<"mean">>), Some(<<"stdev", "mean">>), Some(<<"bogus">>)}

\* A buffer: n samples per channel; ch = 1 is a one-dimensional (mono) array,
\* ch >= 2 a two-dimensional array of shape (n, ch); silent: every sample is 0.
Buffers ==
    {b \in [n : 0..MaxLen, ch : 1..MaxCh, silent : BOOLEAN] : b.n = 0 => b.silent}

NoBuffer == [n |-> 0, ch |-> 0, silent |-> TRUE]

----------------------------------------------------------------------------
(* Collaborators (essentia), by their contract at the call sites *)

\* statistics es.PoolAggregator accepts in defaultStats
SupportedStats ==
    {"min", "max", "median", "mean", "var", "stdev", "skew", "kurt",
     "dmean", "dvar", "dmean2", "dvar2"}

\* es.FrameGenerator(audio, frameSize, hopSize) with its defaults
\* (startFromZero=False): one frame per hop whose centre lies in the signal
FrameCount(n, frameSize, hopSize) == CeilDiv(n, hopSize)

\* descriptors of the pool es.PoolAggregator(defaultStats=stats) returns
PoolAggregator(pool, stats) ==
    {pool[i][1] \o "." \o stats[j] : i \in 1..Len(pool), j \in 1..Len(stats)}

\* [stats[key] for key in keys]: KeyError when a descriptor is missing
Lookup(agg, keys, pool) ==
    IF \A i \in 1..Len(keys) : keys[i] \in agg
    THEN Ret(keys, pool)
    ELSE Raise("KeyError", pool)

\* pool.add(key, value) once per frame
FramePool(key, frames) == [i \in 1..frames |-> <<key, i - 1>>]

----------------------------------------------------------------------------
(* ExtractorBase *)

\* if self.frame_size:
Truthy(o) == o # None /\ Val(o) # 0

ExtractorBaseInit(cls, sample_rate, pooling, stats) ==
    [cls |-> cls,
     attrs |-> {"sample_rate", "pooling", "feature_names"}
                 \cup (IF stats = None THEN {"stats"} ELSE {}),
     sample_rate |-> sample_rate,
     pooling |-> pooling,
     feature_names |-> <<>>,
     stats |-> IF stats = None THEN <<"mean", "stdev">> ELSE <<>>,
     frame_size |-> None]

\* "{}{}{}".format(feature, join, stat), feature-major
JoinHeaders(feature_names, join, stats) ==
    [i \in 1..(Len(feature_names) * Len(stats)) |->
        feature_names[((i - 1) \div Len(stats)) + 1] \o join
            \o stats[((i - 1) % Len(stats)) + 1]]

get_headers(self, join) ==
    IF ~self.pooling THEN Ret(self.feature_names, <<>>)
    ELSE IF self.feature_names = <<>> THEN Ret(<<>>, <<>>)
    ELSE IF "stats" \notin self.attrs THEN Raise("AttributeError", <<>>)
    ELSE Ret(JoinHeaders(self.feature_names, join, self.stats), <<>>)

----------------------------------------------------------------------------
(* Spectral *)

SpectralInit(sample_rate, stats) ==
    [ExtractorBaseInit("Spectral", sample_rate, TRUE, stats) EXCEPT
        !.feature_names =
            <<"rolloff_85", "rolloff_95", "spectral_centroid", "spectral_spread",
              "spectral_skewness", "spectral_kurtosis", "spectral_flatness",
              "spectral_entropy", "harsh", "energyLF">>]

\* frame size and hop size of the spectral analysis
SpectralFrameSize == 2048
SpectralHopSize == 1024

\* the ten pool.add calls of every frame, keys[0] .. keys[9]
SpectralPool(keys, frames) ==
    [i \in 1..(frames * Len(keys)) |->
        <<keys[((i - 1) % Len(keys)) + 1], (i - 1) \div Len(keys)>>]

Spectral_call(self, a) ==
    IF "stats" \notin self.attrs THEN Raise("AttributeError", <<>>)
    ELSE IF \E j \in 1..Len(self.stats) : self.stats[j] \notin SupportedStats
         THEN Raise("EssentiaException", <<>>)
    ELSE IF self.sample_rate <= 0 THEN Raise("EssentiaException", <<>>)
    ELSE IF a.ch # 1 THEN Raise("TypeError", <<>>)
    ELSE LET pool == SpectralPool(self.feature_names, FrameCount(a.n, SpectralFrameSize, SpectralHopSize))
             hdrs == get_headers(self, ".")
         IN  IF hdrs.kind = "raise" THEN Raise(hdrs.exc, pool)
             ELSE Lookup(PoolAggregator(pool, self.stats), hdrs.vec, pool)

----------------------------------------------------------------------------
(* CrestFactor *)

CrestFactorInit(sample_rate, frame_size, stats) ==
    [ExtractorBaseInit("CrestFactor", sample_rate, frame_size # None, stats) EXCEPT
        !.attrs = @ \cup {"frame_size"},
        !.frame_size = frame_size,
        !.feature_names = <<"crest_factor">>]

\* peak / rms on Python floats: ZeroDivisionError when the rms is 0
CrestFactor_call(self, a) ==
    IF Truthy(self.frame_size)
    THEN IF "stats" \notin self.attrs THEN Raise("AttributeError", <<>>)
         ELSE IF \E j \in 1..Len(self.stats) : self.stats[j] \notin SupportedStats
              THEN Raise("EssentiaException", <<>>)
         ELSE IF Val(self.frame_size) < 1 THEN Raise("EssentiaException", <<>>)
         ELSE IF a.ch # 1 THEN Raise("TypeError", <<>>)
         ELSE IF a.n > 0 /\ a.silent THEN Raise("ZeroDivisionError", <<>>)
         ELSE LET pool == FramePool("crest_factor",
                                    FrameCount(a.n, Val(self.frame_size),
                                               Val(self.frame_size)))
                  keys == [j \in 1..Len(self.stats) |->
                              "crest_factor" \o "." \o self.stats[j]]
              IN  Lookup(PoolAggregator(pool, self.stats), keys, pool)
    ELSE IF a.ch # 1 THEN Raise("TypeError", <<>>)
         ELSE IF a.n = 0 THEN Raise("EssentiaException", <<>>)
         ELSE IF a.silent THEN Raise("ZeroDivisionError", <<>>)
         ELSE Ret(<<"crest_factor">>, <<>>)

----------------------------------------------------------------------------
(* Loudness *)

LoudnessInit(sample_rate, stats) ==
    [ExtractorBaseInit("Loudness", sample_rate, FALSE, stats) EXCEPT
        !.feature_names =
            <<"loudness_range", "microdynamics_95%", "microdynamics_100%",
              "peak_to_loudness", "top1db">>]

\* es.LoudnessEBUR128 takes a stereo buffer; micro_dynamics.max() of an empty
\* series and math.log10(0) of a silent channel raise ValueError
Loudness_call(self, a) ==
    IF self.sample_rate <= 0 THEN Raise("EssentiaException", <<>>)
    ELSE IF a.ch # 2 THEN Raise("TypeError", <<>>)
    ELSE IF a.n = 0 THEN Raise("ValueError", <<>>)
    ELSE IF a.silent THEN Raise("ValueError", <<>>)
    ELSE Ret(<<"loudness_range", "microdynamics_95%", "microdynamics_100%",
               "peak_to_loudness", "top1db">>, <<>>)

----------------------------------------------------------------------------
(* DynamicSpread *)

\* default of the frame_size parameter
DynamicSpreadFrameSize == 2048

DynamicSpreadInit(sample_rate, frame_size, stats) ==
    [ExtractorBaseInit("DynamicSpread", sample_rate, FALSE, stats) EXCEPT
        !.attrs = @ \cup {"frame_size"},
        !.frame_size = frame_size,
        !.feature_names = <<"dynamic_spread">>]

DynamicSpread_call(self, a) ==
    IF self.frame_size = None THEN Raise("TypeError", <<>>)
    ELSE IF Val(self.frame_size) < 1 THEN Raise("EssentiaException", <<>>)
    ELSE IF a.ch # 1 THEN Raise("TypeError", <<>>)
    ELSE LET pool == FramePool("vdb", FrameCount(a.n, Val(self.frame_size),
                                                 Val(self.frame_size)))
             vickers_mean == Lookup(PoolAggregator(pool, <<"mean">>),
                                    <<"vdb.mean">>, pool)
         IN  IF vickers_mean.kind = "raise" THEN vickers_mean
             ELSE Ret(<<"dynamic_spread">>, pool)

----------------------------------------------------------------------------
(* Distortion *)

DistortionInit(sample_rate, stats) ==
    [ExtractorBaseInit("Distortion", sample_rate, FALSE, stats) EXCEPT
        !.feature_names =
            <<"pmf_centroid", "pmf_spread", "pmf_skewness",
              "pmf_kurtosis", "pmf_flatness", "pmf_gauss">>]

\* np.histogram flattens a buffer of any shape, the empty one included
Distortion_call(self, a) ==
    Ret(<<"pmf_centroid", "pmf_spread", "pmf_skewness",
          "pmf_kurtosis", "pmf_flatness", "pmf_gauss">>, <<>>)

----------------------------------------------------------------------------
(* StereoFeatures *)

StereoFeaturesInit(sample_rate, stats) ==
    [ExtractorBaseInit("StereoFeatures", sample_rate, FALSE, stats) EXCEPT
        !.feature_names = <<"side_mid_ratio", "lr_imbalance">>]

\* audio[:, 0] raises IndexError on a one-dimensional array; columns 0 and 1
\* exist whenever there are two or more channels; the mean of an empty or
\* silent column gives NaN, not an exception
StereoFeatures_call(self, a) ==
    IF a.ch < 2 THEN Raise("IndexError", <<>>)
    ELSE Ret(<<"side_mid_ratio", "lr_imbalance">>, <<>>)

----------------------------------------------------------------------------
(* PhaseCorrelation *)

PhaseCorrelationInit(sample_rate, frame_size, stats) ==
    [ExtractorBaseInit("PhaseCorrelation", sample_rate, frame_size # None, stats) EXCEPT
        !.attrs = @ \cup {"frame_size"},
        !.frame_size = frame_size,
        !.feature_names = <<"phase_correlation">>]

\* list(range(0, stop, step)), step # 0
Range(stop, step) ==
    IF step > 0 THEN [k \in 1..CeilDiv(stop, step) |-> (k - 1) * step] ELSE <<>>

\* SliceIndices without the appended buffer end: the remainder is dropped
SliceIndicesNoEnd(max_sample, frame_size) ==
    Range(max_sample, frame_size)

\* slice_indices = list(range(0, max_sample, frame_size)) + [max_sample]
SliceIndices(max_sample, frame_size) ==
    Append(Range(max_sample, frame_size), max_sample)

\* the (x1, x2) pairs the loop correlates, each pooled under feature_names[0]
Slices(slice_indices) ==
    [i \in 1..(Len(slice_indices) - 1) |-> <<slice_indices[i], slice_indices[i + 1]>>]

PhaseCorrelation_call(self, a) ==
    IF Truthy(self.frame_size)
    THEN LET slices == Slices(SliceIndices(a.n, Val(self.frame_size)))
             pool == [i \in 1..Len(slices) |-> <<self.feature_names[1], slices[i]>>]
             keys == [j \in 1..Len(self.stats) |->
                         self.feature_names[1] \o "." \o self.stats[j]]
         IN  IF Len(slices) > 0 /\ a.ch < 2 THEN Raise("IndexError", <<>>)
             ELSE IF "stats" \notin self.attrs THEN Raise("AttributeError", pool)
             ELSE IF \E j \in 1..Len(self.stats) : self.stats[j] \notin SupportedStats
                  THEN Raise("EssentiaException", pool)
             ELSE Lookup(PoolAggregator(pool, self.stats), keys, pool)
    ELSE IF a.ch < 2 THEN Raise("IndexError", <<>>)
         ELSE Ret(<<"phase_correlation">>, <<>>)

----------------------------------------------------------------------------
(* The extractor framework as a state machine *)

Classes ==
    {"Spectral", "CrestFactor", "Loudness", "DynamicSpread", "Distortion",
     "StereoFeatures", "PhaseCorrelation"}

\* classes whose constructor takes frame_size
Framed == {"CrestFactor", "DynamicSpread", "PhaseCorrelation"}

\* the constructor call the arguments stand for
New(c) ==
    CASE c.cls = "Spectral" -> SpectralInit(c.sample_rate, c.stats)
      [] c.cls = "CrestFactor" -> CrestFactorInit(c.sample_rate, c.frame_size, c.stats)
      [] c.cls = "Loudness" -> LoudnessInit(c.sample_rate, c.stats)
      [] c.cls = "DynamicSpread" ->
            DynamicSpreadInit(c.sample_rate,
                              IF c.frame_size = None THEN Some(DynamicSpreadFrameSize)
                              ELSE c.frame_size,
                              c.stats)
      [] c.cls = "Distortion" -> DistortionInit(c.sample_rate, c.stats)
      [] c.cls = "StereoFeatures" -> StereoFeaturesInit(c.sample_rate, c.stats)
      [] c.cls = "PhaseCorrelation" ->
            PhaseCorrelationInit(c.sample_rate, c.frame_size, c.stats)

Configurations ==
    {c \in [cls : Classes, sample_rate : SampleRates,
            frame_size : FrameSizes, stats : StatsLists] :
        c.cls \notin Framed => c.frame_size = None}

NotComputed == [kind |-> "none", val |-> <<>>, exc |-> ""]

Init ==
    /\ args \in Configurations
    /\ inst = New(args)
    /\ audio = NoBuffer
    /\ headers = NotCalled
    /\ result = NotCalled
    /\ prev = NotCalled
    /\ signal = <<>>
    /\ prime = NotComputed
    /\ env_l = <<>>
    /\ env_r = <<>>
    /\ top1db = NotComputed

\* an instance on which nothing has been called yet
Fresh(c) ==
    /\ args = c
    /\ inst = New(c)
    /\ audio = NoBuffer
    /\ headers = NotCalled
    /\ result = NotCalled
    /\ prev = NotCalled

\* get_headers building its list in self.feature_names instead of a fresh list
GetHeadersInPlace ==
    /\ headers' = get_headers(inst, ".")
    /\ inst' = [inst EXCEPT !.feature_names = headers'.vec]
    /\ UNCHANGED <<args, audio, result, prev, distortionVars, loudnessVars>>

GetHeaders ==
    /\ headers' = get_headers(inst, ".")
    /\ UNCHANGED <<inst, args, audio, result, prev, distortionVars, loudnessVars>>

\* one __call__ on buffer a, whose outcome is r
Called(a, r) ==
    /\ audio' = a
    /\ result' = r
    /\ prev' = IF a = audio THEN result ELSE NotCalled
    /\ UNCHANGED <<inst, args, headers, distortionVars, loudnessVars>>

SpectralCall ==
    /\ inst.cls = "Spectral"
    /\ \E a \in Buffers : Called(a, Spectral_call(inst, a))

CrestFactorCall ==
    /\ inst.cls = "CrestFactor"
    /\ \E a \in Buffers : Called(a, CrestFactor_call(inst, a))

LoudnessCall ==
    /\ inst.cls = "Loudness"
    /\ \E a \in Buffers : Called(a, Loudness_call(inst, a))

DynamicSpreadCall ==
    /\ inst.cls = "DynamicSpread"
    /\ \E a \in Buffers : Called(a, DynamicSpread_call(inst, a))

DistortionCall ==
    /\ inst.cls = "Distortion"
    /\ \E a \in Buffers : Called(a, Distortion_call(inst, a))

StereoFeaturesCall ==
    /\ inst.cls = "StereoFeatures"
    /\ \E a \in Buffers : Called(a, StereoFeatures_call(inst, a))

PhaseCorrelationCall ==
    /\ inst.cls = "PhaseCorrelation"
    /\ \E a \in Buffers : Called(a, PhaseCorrelation_call(inst, a))

Next ==
    \/ GetHeaders
    \/ SpectralCall
    \/ CrestFactorCall
    \/ LoudnessCall
    \/ DynamicSpreadCall
    \/ DistortionCall
    \/ StereoFeaturesCall
    \/ PhaseCorrelationCall

Spec == Init /\ [][Next]_vars

----------------------------------------------------------------------------
(* Properties of the extractor framework, checked under Spec *)

\* the statistics list the instance was declared with
DeclaredStats == IF args.stats = None THEN <<"mean", "stdev">> ELSE Val(args.stats)

StereoOnly == {"Loudness", "StereoFeatures", "PhaseCorrelation"}

\* a configuration the specification rejects
BadConfiguration ==
    \/ args.sample_rate <= 0
    \/ args.frame_size # None /\ Val(args.frame_size) <= 0
    \/ \E k \in 1..Len(DeclaredStats) : DeclaredStats[k] \notin SupportedStats

\* C1: whenever get_headers() and __call__ have both returned, the returned
\* vector has as many elements as the header list and is aligned with it
\* index by index.
C1_HeadersMatchCompute ==
    (headers.kind = "return" /\ result.kind = "return") =>
        /\ Len(result.vec) = Len(headers.vec)
        /\ \A i \in 1..Len(headers.vec) : result.vec[i] = headers.vec[i]

\* C2: get_headers() returns the feature names verbatim when pooling is off,
\* and when pooling is on one "name.stat" header per feature and declared
\* statistic, feature-major and statistic-minor.  (Stated for the
\* configurations the specification accepts.)
C2_HeaderLayout ==
    (headers.kind # "none" /\ ~BadConfiguration) =>
        /\ headers.kind = "return"
        /\ IF ~inst.pooling
           THEN headers.vec = inst.feature_names
           ELSE /\ Len(headers.vec) = Len(inst.feature_names) * Len(DeclaredStats)
                /\ \A f \in 1..Len(inst.feature_names) :
                     \A k \in 1..Len(DeclaredStats) :
                        headers.vec[(f - 1) * Len(DeclaredStats) + k]
                            = inst.feature_names[f] \o "." \o DeclaredStats[k]

\* C3: a Spectral extractor, with the default statistics or with a list given
\* by the caller, returns for a mono non-empty buffer 10 * len(stats) values:
\* each of the 10 features aggregated with the declared statistics,
\* feature-major.
C3_SpectralAggregates ==
    (/\ inst.cls = "Spectral"
     /\ result.kind # "none"
     /\ args.sample_rate > 0
     /\ audio.ch = 1 /\ audio.n > 0
     /\ \A k \in 1..Len(DeclaredStats) : DeclaredStats[k] \in SupportedStats) =>
        /\ result.kind = "return"
        /\ Len(result.vec) = 10 * Len(DeclaredStats)
        /\ \A f \in 1..10 : \A k \in 1..Len(DeclaredStats) :
              result.vec[(f - 1) * Len(DeclaredStats) + k]
                  = inst.feature_names[f] \o "." \o DeclaredStats[k]

\* C4: a call on an empty buffer, or on a buffer without exactly 2 channels
\* for a stereo-only extractor, ends with a ShapeError and nothing else.
\* (Stated for the configurations the specification accepts.)
C4_ShapeError ==
    (/\ result.kind # "none"
     /\ ~BadConfiguration
     /\ \/ audio.n = 0
        \/ inst.cls \in StereoOnly /\ audio.ch # 2) =>
        result.kind = "raise" /\ result.exc = "ShapeError"

\* C5: an extractor configured with a non-positive sample rate, a
\* non-positive frame size or an unrecognized statistic never returns a
\* feature vector.
C5_BadConfigurationRejected ==
    BadConfiguration => result.kind # "return"

\* C6: after any sequence of get_headers() and __call__ the instance still
\* has the configuration it was constructed with, and a call repeated on the
\* same buffer has the same outcome as the call before it.
C6_CallsLeaveNoTrace ==
    /\ inst = New(args)
    /\ prev.kind # "none" => result = prev

\* C6 happens: a call returned a vector, get_headers() was called, and the
\* call was repeated on the same buffer
C6_Witness ==
    /\ prev.kind = "return"
    /\ headers.kind = "return"
    /\ inst.pooling

\* C7: in the framed mode of PhaseCorrelation, for N > 0 samples and frame
\* size s > 0, the pooled slices partition [0, N): contiguous, non-empty, of
\* s samples each except possibly the last, ending at N, ceil(N / s) of them.
C7_SlicesPartition ==
    (/\ inst.cls = "PhaseCorrelation"
     /\ result.kind # "none"
     /\ args.frame_size # None /\ Val(args.frame_size) > 0
     /\ audio.n > 0 /\ audio.ch >= 2) =>
        LET p == result.pool
            s == Val(args.frame_size)
            N == audio.n
            x1(i) == p[i][2][1]
            x2(i) == p[i][2][2]
        IN  /\ Len(p) >= 1
            /\ (Len(p) - 1) * s < N /\ N <= Len(p) * s
            /\ x1(1) = 0
            /\ x2(Len(p)) = N
            /\ \A i \in 1..Len(p) :
                  /\ p[i][1] = "phase_correlation"
                  /\ x1(i) < x2(i)
                  /\ x2(i) - x1(i) <= s
                  /\ i < Len(p) => (x2(i) - x1(i) = s /\ x1(i + 1) = x2(i))

\* C7 happens: several slices, the last one shorter than the frame size
C7_Witness ==
    /\ inst.cls = "PhaseCorrelation"
    /\ result.kind = "return"
    /\ args.frame_size # None /\ Val(args.frame_size) > 1
    /\ Len(result.pool) >= 3
    /\ audio.n % Val(args.frame_size) # 0

\* C10: for CrestFactor and PhaseCorrelation the mode get_headers() announces
\* and the mode __call__ takes agree, for every frame size given: without a
\* frame size, pooling is off, the header is the bare feature name and one
\* whole-signal value is returned; with one, pooling is on, the headers are
\* stat-suffixed and len(stats) aggregated values are returned.
C10_ModesAgree ==
    (/\ inst.cls \in {"CrestFactor", "PhaseCorrelation"}
     /\ headers.kind = "return"
     /\ result.kind = "return") =>
        IF args.frame_size = None
        THEN /\ ~inst.pooling
             /\ headers.vec = inst.feature_names
             /\ result.vec = inst.feature_names
        ELSE /\ inst.pooling
             /\ headers.vec = [k \in 1..Len(DeclaredStats) |->
                                  inst.feature_names[1] \o "." \o DeclaredStats[k]]
             /\ result.vec = headers.vec

----------------------------------------------------------------------------
(* Distortion: the amplitude histogram and its first difference.           *)
(* Samples are integers in thousandths of full scale, -1000 .. 1000.       *)

\* most samples in a buffer
MaxSamples == 3

\* sample values: both ends of the range, the centre, and the last two bins
Amplitudes == {-1000, 0, 998, 1000}

\* np.histogram(audio, 1001, (-1.0, 1.0))
NumBins == 1001
\* np.zeros(1000)
PrimeLen == 1000
\* for i in range(1, 1000)
RangeStop == 1000

\* the bin of np.histogram holding sample x; the last bin is closed on the right
Bin(x) ==
    IF x = 1000 THEN NumBins - 1 ELSE ((x + 1000) * NumBins) \div 2000

Histogram(sig) ==
    [k \in 0..(NumBins - 1) |-> Cardinality({i \in 1..Len(sig) : Bin(sig[i]) = k})]

\* prime = np.zeros(1000); for i in range(1, 1000): prime[i - 1] = abs(hist[i] - hist[i - 1])
FirstDifference(hist) ==
    [k \in 0..(PrimeLen - 1) |->
        IF k + 1 \in 1..(RangeStop - 1) THEN Abs(hist[k + 1] - hist[k]) ELSE 0]

InitDistortion ==
    /\ Fresh([cls |-> "Distortion", sample_rate |-> 44100,
              frame_size |-> None, stats |-> None])
    /\ signal \in UNION {[1..m -> Amplitudes] : m \in 0..MaxSamples}
    /\ prime = NotComputed
    /\ env_l = <<>>
    /\ env_r = <<>>
    /\ top1db = NotComputed

DistortionPrime ==
    /\ prime.kind = "none"
    /\ prime' = [kind |-> "return", val |-> FirstDifference(Histogram(signal)), exc |-> ""]
    /\ UNCHANGED <<frameworkVars, signal, loudnessVars>>

NextDistortion == DistortionPrime

SpecDistortion == InitDistortion /\ [][NextDistortion]_vars

\* C8: the first-difference sequence has 1000 entries and entry k, for every
\* k in 0..999, is |hist[k+1] - hist[k]| of the 1001-bin histogram, the last
\* pair of bins (999 and 1000) included.
C8_FirstDifferenceComplete ==
    prime.kind = "return" =>
        /\ DOMAIN prime.val = 0..999
        /\ \A k \in 0..999 :
              prime.val[k] = Abs(Histogram(signal)[k + 1] - Histogram(signal)[k])

----------------------------------------------------------------------------
(* Loudness: top1db.  es.TruePeakDetector returns the oversampled and      *)
(* rectified signal of a channel: an envelope is a sequence of             *)
(* non-negative levels, here integers in ten-thousandths of full scale.    *)

\* most samples in an envelope
MaxEnv == 3

\* envelope levels: silence, just at and just above the threshold, full scale
Levels == {0, 8912, 8913, 10000}

\* math.pow(10, -1.0 / 20.0) = 0.89125..., in ten-thousandths, rounded down:
\* an integer level exceeds the gain exactly when it exceeds 8912
Top1dbGain == 8912

\* (envelope > top_1db_gain).sum()
CountAbove(env) == Cardinality({i \in 1..Len(env) : env[i] > Top1dbGain})

\* envelope.max(); ValueError on an empty array is raised by the caller
MaxLevel(env) == CHOOSE m \in {env[i] : i \in 1..Len(env)} :
                    \A i \in 1..Len(env) : env[i] <= m

\* top1db with the right-channel count taken from the right-channel envelope
Top1dbPerChannel(l, r) ==
    IF l = <<>> \/ r = <<>> THEN [kind |-> "raise", val |-> <<>>, exc |-> "ValueError"]
    ELSE IF MaxLevel(l) = 0 \/ MaxLevel(r) = 0
         THEN [kind |-> "raise", val |-> <<>>, exc |-> "ValueError"]
    ELSE [kind |-> "return",
          val |-> <<CountAbove(l) + CountAbove(r), Len(l) + Len(r)>>,
          exc |-> ""]

\* lines 200-214 of Loudness.__call__: the quotient is kept as the pair
\* (numerator, denominator); math.log10 of a zero peak raises ValueError
Top1db(l, r) ==
    IF l = <<>> \/ r = <<>> THEN [kind |-> "raise", val |-> <<>>, exc |-> "ValueError"]
    ELSE IF MaxLevel(l) = 0 \/ MaxLevel(r) = 0
         THEN [kind |-> "raise", val |-> <<>>, exc |-> "ValueError"]
    ELSE LET top_1db_l == CountAbove(l)
             top_1db_r == CountAbove(l)
         IN  [kind |-> "return",
              val |-> <<top_1db_l + top_1db_r, Len(l) + Len(r)>>,
              exc |-> ""]

InitLoudness ==
    /\ Fresh([cls |-> "Loudness", sample_rate |-> 44100,
              frame_size |-> None, stats |-> None])
    /\ signal = <<>>
    /\ prime = NotComputed
    /\ env_l \in UNION {[1..m -> Levels] : m \in 0..MaxEnv}
    /\ env_r \in UNION {[1..m -> Levels] : m \in 0..MaxEnv}
    /\ top1db = NotComputed

LoudnessTop1db ==
    /\ top1db.kind = "none"
    /\ top1db' = Top1db(env_l, env_r)
    /\ UNCHANGED <<frameworkVars, distortionVars, env_l, env_r>>

NextLoudness == LoudnessTop1db

SpecLoudness == InitLoudness /\ [][NextLoudness]_vars

\* left-envelope samples whose absolute value exceeds the -1 dBFS gain
LeftOver == Cardinality({i \in 1..Len(env_l) : Abs(env_l[i]) > Top1dbGain})

\* C9: top1db is (2 * the number of left-envelope samples whose absolute
\* value exceeds the -1 dBFS gain) / (length of the left envelope + length of
\* the right envelope); the right envelope enters through its length only,
\* and for envelopes of equal length the quotient lies in [0, 1].
C9_Top1dbFromLeft ==
    top1db.kind = "return" =>
        /\ top1db.val[2] = Len(env_l) + Len(env_r)
        /\ top1db.val[1] = 2 * LeftOver
        /\ Len(env_l) = Len(env_r) => (0 <= top1db.val[1] /\ top1db.val[1] <= top1db.val[2])

\* C9 happens: the two envelopes, of equal length, differ in how many of
\* their samples exceed the gain
C9_Witness ==
    /\ top1db.kind = "return"
    /\ Len(env_l) = Len(env_r)
    /\ LeftOver > 0
    /\ CountAbove(env_r) # CountAbove(env_l)

====
